---- MODULE Spec2Model ----
(***************************************************************************)
(* Model of the SettingsManager class (src/settings-manager.js): the       *)
(* settings registry, the localStorage mirror, the generated controls and  *)
(* the asynchronous option callbacks.                                      *)
(***************************************************************************)
EXTENDS Integers, Sequences, FiniteSets, TLC

(* ---------------------------------------------------------------------- *)
(* Bounds of the model                                                     *)
(* ---------------------------------------------------------------------- *)
\* calls of the page, activations of controls and changes of the store's
\* availability after construction
MaxOps == 2
\* microtasks that may be queued at once
MaxQueue == 2
\* option callbacks that may be pending (not yet settled) at once
MaxSlow == 1
\* nested calls of #watchForContainer the call stack holds
MaxStack == 2

(* ---------------------------------------------------------------------- *)
(* JavaScript values                                                       *)
(* ---------------------------------------------------------------------- *)
\* the value undefined (a missing args.v)
UndefinedV == "<undefined>"
\* the value null (localStorage.getItem on a miss, getSetting on a failure)
NullV == "<null>"
\* the initial value of a button element
EmptyV == ""

\* ToBoolean(x) for the values of the model
Truthy(x) == x \notin {UndefinedV, NullV, EmptyV}

\* a || b
OrElse(a, b) == IF Truthy(a) THEN a ELSE b

\* properties every object literal inherits from Object.prototype
ProtoKeys == {"constructor"}

\* o[k] !== undefined for an object literal o
HasProp(o, k) == k \in DOMAIN o \/ k \in ProtoKeys

\* o[k].f !== undefined, for k with HasProp(o, k)
HasF(o, k) == k \in DOMAIN o /\ o[k].f

\* o[k].s, for k with HasProp(o, k)
LabelOf(o, k) == IF k \in DOMAIN o THEN o[k].s ELSE "undefined"

(* ---------------------------------------------------------------------- *)
(* The settings lists handed to the constructor                            *)
(* ---------------------------------------------------------------------- *)
\* an option object {s, f, d, h}
Opt(s, f, d, h) == [s |-> s, f |-> f, d |-> d, h |-> h]

\* what the initializer i of a setting is: not declared, or a function that
\* throws when it is called (the one of the example list calls
\* args.s.setValue, which the class does not define)
Initializers == {"none", "throws"}

\* a setting object {s, v, a, d.type, i, o}; keys is the for-in order of o
Setting(name, v, type, disabled, i, keys, o) ==
    [name |-> name, v |-> v, type |-> type, disabled |-> disabled,
     i |-> i, keys |-> keys, o |-> o]

\* two settings, the name of the second a prefix of the name of the first
ListPlain ==
    << Setting("volume", "low", "cycle", FALSE, "none", <<"low", "high">>,
               [low  |-> Opt("Low", FALSE, FALSE, FALSE),
                high |-> Opt("High", TRUE, FALSE, FALSE)]),
       Setting("vol", "off", "submenu", FALSE, "none", <<"off", "on">>,
               [off |-> Opt("Off", TRUE, FALSE, FALSE),
                on  |-> Opt("On", FALSE, FALSE, FALSE)]) >>

\* one setting whose control carries the attribute "disabled", with an
\* initializer and with a disabled option between two others
ListDisabled ==
    << Setting("volume", "low", "cycle", TRUE, "throws", <<"low", "mid", "high">>,
               [low  |-> Opt("Low", FALSE, FALSE, FALSE),
                mid  |-> Opt("Mid", FALSE, TRUE, FALSE),
                high |-> Opt("High", TRUE, FALSE, FALSE)]) >>

\* submenu settings without callbacks: one with numeric option keys (for-in
\* visits integer keys in ascending order) and names that are no numbers,
\* one with a hidden option, one whose name holds the word Top
ListMenus ==
    << Setting("size", "1", "submenu", FALSE, "none", <<"1", "2">>,
               [k \in {"1", "2"} |->
                   Opt(IF k = "1" THEN "Small" ELSE "Large", FALSE, FALSE, FALSE)]),
       Setting("mode", "day", "submenu", FALSE, "none", <<"day", "night", "secret">>,
               [day    |-> Opt("Day", FALSE, FALSE, FALSE),
                night  |-> Opt("Night", FALSE, FALSE, FALSE),
                secret |-> Opt("Secret", FALSE, FALSE, TRUE)]),
       Setting("TopBar", "on", "submenu", FALSE, "none", <<"on">>,
               [on |-> Opt("On", FALSE, FALSE, FALSE)]) >>

SettingsLists == {ListPlain, ListDisabled, ListMenus}

\* a starts with b (the attribute selector [name^='b'])
StartsWith(a, b) == a = b \/ <<a, b>> \in {<<"volume", "vol">>}

\* values a caller may pass as args.v besides the option keys
OtherValues == {"bogus", "constructor"}

(* ---------------------------------------------------------------------- *)
(* State                                                                   *)
(* ---------------------------------------------------------------------- *)
VARIABLES
    phase,      \* "new" before the constructor has run, "ready" after
    settings,   \* #settings, the list handed to the constructor
    container,  \* #container: element, isPresent, observer
    docHasEl,   \* the document contains the container element
    rendered,   \* how many times generateDOM's fragment was appended
    dom,        \* the generated controls, by setting name
    store,      \* localStorage, by setting name
    storageUp,  \* localStorage works (does not throw)
    mq,         \* the microtask queue
    slow,       \* option callbacks whose promise has not settled
    unhandled,  \* an async function of the engine rejected with no handler
    initRan,    \* the settings whose initializer i has been called
    watchers,   \* how many MutationObservers the instance has created
    inits,      \* how many times init() ran during the last step
    ops,        \* calls and activations so far
    last        \* the last operation and what it returned

vars == <<phase, settings, container, docHasEl, rendered, dom, store,
          storageUp, mq, slow, unhandled, initRan, watchers, inits, ops, last>>

\* localStorage has no entry under the key
NoEntry == NullV

\* the part of the state the methods of the class work on
World == [settings |-> settings, container |-> container,
          rendered |-> rendered, dom |-> dom, store |-> store,
          mq |-> mq, slow |-> slow, unhandled |-> unhandled,
          initRan |-> initRan, watchers |-> watchers, inits |-> 0]

Commit(w) ==
    \E x \in {w} :
        /\ settings' = x.settings
        /\ container' = x.container
        /\ rendered' = x.rendered
        /\ dom' = x.dom
        /\ store' = x.store
        /\ mq' = x.mq
        /\ slow' = x.slow
        /\ unhandled' = x.unhandled
        /\ initRan' = x.initRan
        /\ watchers' = x.watchers
        /\ inits' = x.inits

Names(w) == {w.settings[i].name : i \in 1..Len(w.settings)}

Idx(w, name) == CHOOSE i \in 1..Len(w.settings) : w.settings[i].name = name

\* this.#settings[setting]
Obj(w, name) == w.settings[Idx(w, name)]

\* this.#defaults[setting]: #defaults is the same object as #settings
DefaultObj(w, name) == Obj(w, name)

\* getDefault(setting)
getDefault(w, name) == DefaultObj(w, name).v

OptionKeys(w, name) == DOMAIN Obj(w, name).o

\* the record of an operation: its name, the setting and value it was about,
\* what it returned
Op(op, s, v, ret) == [op |-> op, s |-> s, v |-> v, ret |-> ret]

(* ---------------------------------------------------------------------- *)
(* Methods of the class, as functions on the world                         *)
(* ---------------------------------------------------------------------- *)
\* #container.element before an element is resolved
NoElement == "null"

\* the value undefined where an element is expected
UndefElement == "undefined"

\* x instanceof HTMLElement: "el" is the container element of the page
IsElement(x) == x = "el"

\* localStorage.setItem / getItem keys of the model
AllNames == {"volume", "vol", "size", "mode", "TopBar"}

\* getSetting that never reads the store
getSettingNoStore(w, up, name) ==
    IF ~up THEN NullV ELSE Obj(w, name).v

\* getSetting that answers a failing read with the in-memory value
getSettingFallback(w, up, name) ==
    IF ~up THEN Obj(w, name).v
    ELSE IF w.store[name] = NoEntry THEN Obj(w, name).v
    ELSE w.store[name]

\* getSetting(setting): up is whether localStorage.getItem works
getSetting(w, up, name) ==
    IF ~up THEN NullV
    ELSE IF w.store[name] = NoEntry THEN Obj(w, name).v
    ELSE w.store[name]

\* the setting whose TopButton document.querySelector(
\* "button.TopButton[name^='" + setting + "']") returns: the first in
\* document order whose name starts with the setting's name
TopButtonFor(w, name) ==
    LET c == {i \in 1..Len(w.settings) : StartsWith(w.settings[i].name, name)}
        first == CHOOSE i \in c : \A j \in c : i <= j
    IN  w.settings[first].name

\* updateDOM that adds the error class and never removes it
updateDOMKeepsError(w, name, value, error) ==
    IF w.container.element \in {NoElement, UndefElement} \/ w.rendered = 0 THEN w
    ELSE
      LET settingValue == OrElse(value, OrElse(Obj(w, name).v, DefaultObj(w, name).v))
          o == Obj(w, name).o
      IN  IF ~HasProp(o, settingValue) THEN w
          ELSE
            LET t == TopButtonFor(w, name)
                isDisabled == w.dom[t].disabled
                top(n, d) == IF n = t
                             THEN [d EXCEPT !.value = settingValue,
                                            !.label = LabelOf(o, settingValue),
                                            !.error = @ \/ (error /\ ~isDisabled)]
                             ELSE d
                sub(n, d) == IF n = name
                             THEN [d EXCEPT !.subActive = {k \in d.subs : k = settingValue}]
                             ELSE d
            IN  [w EXCEPT !.dom = [n \in DOMAIN @ |-> sub(n, top(n, @[n]))]]

\* updateDOM that shows the error on a disabled control too
updateDOMAnyControl(w, name, value, error) ==
    IF w.container.element \in {NoElement, UndefElement} \/ w.rendered = 0 THEN w
    ELSE
      LET settingValue == OrElse(value, OrElse(Obj(w, name).v, DefaultObj(w, name).v))
          o == Obj(w, name).o
      IN  IF ~HasProp(o, settingValue) THEN w
          ELSE
            LET t == TopButtonFor(w, name)
                top(n, d) == IF n = t
                             THEN [d EXCEPT !.value = settingValue,
                                            !.label = LabelOf(o, settingValue),
                                            !.error = error]
                             ELSE d
                sub(n, d) == IF n = name
                             THEN [d EXCEPT !.subActive = {k \in d.subs : k = settingValue}]
                             ELSE d
            IN  [w EXCEPT !.dom = [n \in DOMAIN @ |-> sub(n, top(n, @[n]))]]

\* updateDOM(setting, value, error)
updateDOM(w, name, value, error) ==
    IF w.container.element \in {NoElement, UndefElement} \/ w.rendered = 0 THEN w
    ELSE
      LET settingValue == OrElse(value, OrElse(Obj(w, name).v, DefaultObj(w, name).v))
          o == Obj(w, name).o
      IN  IF ~HasProp(o, settingValue) THEN w
          ELSE
            LET t == TopButtonFor(w, name)
                isDisabled == w.dom[t].disabled
                top(n, d) == IF n = t
                             THEN [d EXCEPT !.value = settingValue,
                                            !.label = LabelOf(o, settingValue),
                                            !.error = error /\ ~isDisabled]
                             ELSE d
                sub(n, d) == IF n = name
                             THEN [d EXCEPT !.subActive = {k \in d.subs : k = settingValue}]
                             ELSE d
            IN  [w EXCEPT !.dom = [n \in DOMAIN @ |-> sub(n, top(n, @[n]))]]

\* a SubButton for every option, the hidden ones included
SubButtonsAll(st) ==
    IF st.type = "submenu" THEN DOMAIN st.o ELSE {}

\* the SubButtons generateDOM creates for a setting, as the set of their values
SubButtons(st) ==
    IF st.type = "submenu" THEN {k \in DOMAIN st.o : ~st.o[k].h} ELSE {}

\* parseFloat(x) is a number, for the strings of the model
IsNumeric(x) == x \in {"0", "1", "2", "3"}

\* Number(x) for such a string
NumberOf(x) == CHOOSE i \in 0..3 : <<"0", "1", "2", "3">>[i + 1] = x

\* the keys in S, all numeric, by descending value
RECURSIVE sortDescending(_)
sortDescending(S) ==
    IF S = {} THEN <<>>
    ELSE LET b == CHOOSE k \in S : \A j \in S : NumberOf(k) >= NumberOf(j)
         IN  <<b>> \o sortDescending(S \ {b})

\* settingOptionsArray.sort(function(a, b) { return b - a; }): for keys
\* that are no numbers b - a is NaN, which leaves the order as it is
sortOptions(arr) ==
    IF \A i \in 1..Len(arr) : IsNumeric(arr[i])
    THEN sortDescending({arr[i] : i \in 1..Len(arr)})
    ELSE arr

\* the values of the SubButtons generateDOM creates for a setting, in the
\* order of the document: the array of keys is sorted when the display
\* name s of its first option parses as a number
SubButtonOrder(st) ==
    IF st.type # "submenu" THEN <<>>
    ELSE LET Visible(k) == ~st.o[k].h
             arr == IF IsNumeric(st.o[st.keys[1]].s) THEN sortOptions(st.keys)
                    ELSE st.keys
         IN  SelectSeq(arr, Visible)

\* generateDOM(): the controls of every setting
generateDOM(w) ==
    [n \in Names(w) |->
        LET st == Obj(w, n) IN
        [value |-> EmptyV,
         label |-> LabelOf(st.o, st.v),
         error |-> FALSE,
         disabled |-> st.disabled,
         active |-> FALSE,
         open |-> FALSE,
         subs |-> SubButtons(st),
         order |-> SubButtonOrder(st),
         subActive |-> {k \in SubButtons(st) : k = st.v}]]

\* how the option's function f behaves on one call: it throws before
\* returning, it returns a value or a promise settled within the current
\* run of microtasks, or it returns a promise that settles later (or never)
Kinds == {"throws", "fast", "slow"}

\* what a settled callback yields: true, another value, or a rejection
Outcomes == {"true", "other", "reject"}

\* executeSetting(setting, {value: argValue}); bySet is whether setSetting
\* made the call
executeSetting(w, name, argValue, kind, bySet) ==
    LET value == OrElse(argValue, OrElse(Obj(w, name).v, DefaultObj(w, name).v))
        o == Obj(w, name).o
    IN  IF ~HasProp(o, value) THEN w
        ELSE IF HasF(o, value) THEN
            CASE kind = "throws" -> updateDOM(w, name, value, TRUE)
              [] kind = "fast" ->
                   [w EXCEPT !.mq = Append(@, [t |-> "callback", s |-> name,
                                               v |-> value, cb |-> kind,
                                               bySet |-> bySet])]
              [] kind = "slow" ->
                   [w EXCEPT !.slow = Append(@, [s |-> name, v |-> value,
                                                 bySet |-> bySet,
                                                 persisted |-> FALSE])]
        ELSE updateDOM(w, name, value, FALSE)

\* a write of the setting's in-memory value instead of the value selected
setItemStale(w, name, v) == [w EXCEPT !.store[name] = Obj(w, name).v]

\* localStorage.setItem(setting, v) with a working store
setItem(w, name, v) == [w EXCEPT !.store[name] = v]

\* setSetting(setting, {v: v}); up is whether localStorage.setItem works
setSetting(w, up, name, v, kind) ==
    LET o == Obj(w, name).o IN
    IF HasProp(o, v) THEN
        IF HasF(o, v) THEN
            LET w1 == executeSetting(w, name, v, kind, TRUE)
            IN  [w1 EXCEPT !.mq = Append(@, [t |-> "persist", s |-> name,
                                             v |-> v, cb |-> kind,
                                             bySet |-> TRUE])]
        ELSE IF up THEN updateDOM(setItem(w, name, v), name, v, FALSE)
        ELSE updateDOM(w, name, v, TRUE)
    ELSE updateDOM(w, name, v, TRUE)

\* setting.i for the loop variable of init(): "for (var setting in
\* this.#settings)" binds setting to the key, a string, which has no
\* property i
KeyI(name) == UndefinedV

\* init() that handles the first setting only
initFromFirst(w, up, kinds, i) ==
    IF i > 1 THEN w
    ELSE LET name == w.settings[i].name
         IN  setSetting(w, up, name, getSetting(w, up, name), kinds[i])

\* init(): the loop over the settings, from the i-th on. A call of the
\* initializer is not guarded: when it throws, the loop ends there.
RECURSIVE initFrom(_, _, _, _)
initFrom(w, up, kinds, i) ==
    IF i > Len(w.settings) THEN w
    ELSE LET name == w.settings[i].name
         IN  IF KeyI(name) # UndefinedV
             THEN LET w1 == [w EXCEPT !.initRan = @ \cup {name}]
                  IN  IF Obj(w, name).i = "throws" THEN w1
                      ELSE initFrom(w1, up, kinds, i + 1)
             ELSE initFrom(setSetting(w, up, name, getSetting(w, up, name), kinds[i]),
                           up, kinds, i + 1)

init(w, up, kinds) == initFrom([w EXCEPT !.inits = @ + 1], up, kinds, 1)

\* how a call of init() ends for its caller: it returns this, or the
\* exception of an initializer it called leaves it
initEnds(w) ==
    IF \E n \in Names(w) : KeyI(n) # UndefinedV /\ Obj(w, n).i = "throws"
    THEN "throws" ELSE "this"

\* JSON.stringify(v) for null and for strings without special characters
JSONstringify(v) == IF v = NullV THEN "null" ELSE "\"" \o v \o "\""

\* array.indexOf(x), counted from 0, -1 when absent
indexOf(seq, x) ==
    IF \E i \in 1..Len(seq) : seq[i] = x
    THEN (CHOOSE i \in 1..Len(seq) : seq[i] = x /\ \A j \in 1..(i - 1) : seq[j] # x) - 1
    ELSE -1

\* array[i], counted from 0, undefined outside the array
at(seq, i) == IF i + 1 \in 1..Len(seq) THEN seq[i + 1] ELSE UndefinedV

\* #getNextOption that does not loop back after the last option
getNextOptionNoLoop(w, up, name, currentOption) ==
    LET cur == IF currentOption = EmptyV THEN getSetting(w, up, name) ELSE currentOption
        arr == Obj(w, name).keys
        i1 == indexOf(arr, cur)
        currentOptionIndex == IF i1 = -1 THEN indexOf(arr, JSONstringify(cur)) ELSE i1
    IN  at(arr, currentOptionIndex + 1)

\* #getNextOption that goes back to the first option after the second
getNextOptionRestart(w, up, name, currentOption) ==
    LET cur == IF currentOption = EmptyV THEN getSetting(w, up, name) ELSE currentOption
        arr == Obj(w, name).keys
        i1 == indexOf(arr, cur)
        currentOptionIndex == IF i1 = -1 THEN indexOf(arr, JSONstringify(cur)) ELSE i1
    IN  IF currentOptionIndex >= 1 THEN at(arr, 0)
        ELSE at(arr, currentOptionIndex + 1)

\* #getNextOption that takes a value it does not find for the first option
getNextOptionFromFirst(w, up, name, currentOption) ==
    LET cur == IF currentOption = EmptyV THEN getSetting(w, up, name) ELSE currentOption
        arr == Obj(w, name).keys
        i1 == indexOf(arr, cur)
        i2 == IF i1 = -1 THEN indexOf(arr, JSONstringify(cur)) ELSE i1
        currentOptionIndex == IF i2 = -1 THEN 0 ELSE i2
    IN  IF currentOptionIndex = Len(arr) - 1 THEN at(arr, 0)
        ELSE at(arr, currentOptionIndex + 1)

\* #getNextOption(setting, currentOption).n
getNextOption(w, up, name, currentOption) ==
    LET cur == IF currentOption = EmptyV THEN getSetting(w, up, name) ELSE currentOption
        arr == Obj(w, name).keys
        i1 == indexOf(arr, cur)
        currentOptionIndex == IF i1 = -1 THEN indexOf(arr, JSONstringify(cur)) ELSE i1
    IN  IF currentOptionIndex = Len(arr) - 1 THEN at(arr, 0)
        ELSE at(arr, currentOptionIndex + 1)

\* the property key a number is converted to when it indexes an object
ToPropertyKey(i) ==
    IF i \in 0..3 THEN <<"0", "1", "2", "3">>[i + 1] ELSE UndefinedV

\* #getNextOption(setting, currentOption).o, as the key of the option object
\* returned (undefined when the options have no such property): the code
\* reads settingOptions[0] and settingOptions[currentOptionIndex + 1], the
\* options object indexed by the position in the array of keys
getNextOptionO(w, up, name, currentOption) ==
    LET cur == IF currentOption = EmptyV THEN getSetting(w, up, name) ELSE currentOption
        arr == Obj(w, name).keys
        i1 == indexOf(arr, cur)
        currentOptionIndex == IF i1 = -1 THEN indexOf(arr, JSONstringify(cur)) ELSE i1
        k == IF currentOptionIndex = Len(arr) - 1 THEN ToPropertyKey(0)
             ELSE ToPropertyKey(currentOptionIndex + 1)
    IN  IF k \in DOMAIN Obj(w, name).o THEN k ELSE UndefinedV

\* button.name.replace("Top", "") for the TopButton of a setting: replace
\* removes the first "Top" of the name, which is the suffix generateDOM gave
\* the button of a submenu only when the setting's name holds no "Top"
replaceTop(st) ==
    IF st.name = "TopBar"
    THEN IF st.type = "submenu" THEN "BarTop" ELSE "Bar"
    ELSE st.name

\* toggleSubMenu that leaves the other panels and buttons as they are
toggleSubMenuOwn(w, name) ==
    LET cycle == Obj(w, name).type = "cycle"
    IN  [w EXCEPT !.dom = [n \in DOMAIN @ |->
            IF n = name /\ ~cycle
            THEN [@[n] EXCEPT !.open = TRUE, !.active = TRUE]
            ELSE @[n]]]

\* toggleSubMenu(button), button the TopButton of the setting: subMenu is
\* the SubMenu whose id is settingName, null when there is none, and then
\* subMenu.classList.add throws after the other panels were closed
toggleSubMenu(w, name) ==
    LET cycle == Obj(w, name).type = "cycle"
        settingName == replaceTop(Obj(w, name))
        found == settingName \in Names(w) /\ Obj(w, settingName).type = "submenu"
    IN  [w EXCEPT !.dom = [n \in DOMAIN @ |->
            [@[n] EXCEPT
                !.open = IF found /\ n = settingName
                         THEN (IF cycle THEN @ ELSE TRUE)
                         ELSE FALSE,
                !.active = IF n = name
                           THEN (IF cycle \/ ~found THEN @ ELSE TRUE)
                           ELSE FALSE]]]

\* insertDOM(element) for an element that resolves
insertDOM(w) ==
    [w EXCEPT !.container.isPresent = TRUE,
              !.dom = IF w.rendered = 0 THEN generateDOM(w) ELSE @,
              !.rendered = @ + 1]

(* ---------------------------------------------------------------------- *)
(* Initial state: the class fields before the constructor runs             *)
(* ---------------------------------------------------------------------- *)
\* what earlier sessions may have left in localStorage
InitialStores ==
    { [n \in AllNames |-> NoEntry],
      [volume |-> "bogus", vol |-> "on", size |-> "2", mode |-> NoEntry,
       TopBar |-> NoEntry] }

Init ==
    /\ phase = "new"
    /\ settings = <<>>
    /\ container = [element |-> NoElement, original |-> "none",
                    isPresent |-> FALSE, observer |-> "none"]
    /\ docHasEl \in BOOLEAN
    /\ rendered = 0
    /\ dom = <<>>
    /\ store \in InitialStores
    /\ storageUp = TRUE
    /\ mq = <<>>
    /\ slow = <<>>
    /\ unhandled = FALSE
    /\ initRan = {}
    /\ watchers = 0
    /\ inits = 0
    /\ ops = 0
    /\ last = Op("none", "", "", "")

\* the queue and the pending callbacks stay within the bounds
Bounded(w) == Len(w.mq) <= MaxQueue /\ Len(w.slow) <= MaxSlow

\* the behaviours chosen for the callbacks are those of callbacks that a
\* step running init() n times calls: "fast" stands for the others
KindsCalled(w, up, kinds, n) ==
    \A i \in 1..Len(w.settings) :
        kinds[i] # "fast" =>
            /\ n > 0
            /\ HasF(w.settings[i].o, getSetting(w, up, w.settings[i].name))

(* ---------------------------------------------------------------------- *)
(* Construction and deferred mounting                                      *)
(* ---------------------------------------------------------------------- *)
\* the container handed to the constructor: an element of the page, a
\* selector, null, nothing (undefined), or a jQuery collection without
\* members (jQuery is loaded in the page)
Locators == {"element", "selector", "null", "undefined", "emptyJQuery"}

\* document.querySelector(selector)
querySelector(selector, inDoc) ==
    IF selector = "selector" /\ inDoc THEN "el" ELSE NoElement

\* the element #resolveElement returns: the argument is a locator, or the
\* value of #container.element
resolved(locator, inDoc) ==
    CASE locator \in {"element", "el"} -> "el"
      [] locator = "selector" -> querySelector(locator, inDoc)
      [] locator = "null" -> NoElement
      [] OTHER -> UndefElement

\* #resolveElement(element)
resolveElement(w, locator, inDoc) ==
    LET found == resolved(locator, inDoc) \notin {NoElement, UndefElement}
    IN  [w EXCEPT !.container.isPresent = found]

\* the creation of the observer with no test for an earlier one
createObserverAgain(w) ==
    [w EXCEPT !.container.observer = "observing", !.watchers = @ + 1]

\* the creation of the MutationObserver in #watchForContainer
createObserver(w) ==
    IF w.container.observer = "none"
    THEN [w EXCEPT !.container.observer = "observing", !.watchers = @ + 1]
    ELSE w

\* a call yields the world it leaves and whether an exception left it;
\* depth is the number of nested calls of #watchForContainer the stack
\* still takes
RECURSIVE watchForContainer(_, _, _, _, _)

\* insertDOM(element): for an element that does not resolve, the fall back
\* to #watchForContainer and then element.appendChild on no element
insertDOMElement(w, up, kinds, element, inDoc, depth) ==
    LET w1 == resolveElement(w, element, inDoc)
    IN  IF IsElement(resolved(element, inDoc))
        THEN [w |-> insertDOM(w1), threw |-> FALSE]
        ELSE [w |-> watchForContainer(w1, up, kinds, inDoc, depth).w, threw |-> TRUE]

\* insertDOMAndInit() inside #watchForContainer: both calls in a try/catch
insertDOMAndInit(w, up, argDOM, argInit, kinds, inDoc, depth) ==
    LET w1 == IF argDOM
              THEN insertDOMElement(w, up, kinds, w.container.element, inDoc, depth).w
              ELSE w
    IN  IF argInit THEN init(w1, up, kinds) ELSE w1

\* #watchForContainer() with its default arguments
watchForContainer(w, up, kinds, inDoc, depth) ==
    IF depth = 0 THEN [w |-> w, threw |-> TRUE]
    ELSE LET el == resolved(w.container.original, inDoc)
             w1 == resolveElement(w, w.container.original, inDoc)
         IN  IF el # NoElement
             THEN [w |-> insertDOMAndInit([w1 EXCEPT !.container.element = el], up,
                                          TRUE, TRUE, kinds, inDoc, depth - 1),
                   threw |-> FALSE]
             ELSE [w |-> createObserver(w1), threw |-> FALSE]

\* new SettingsManager({settings, container, DOM, init}). A selector that
\* matches at construction resolves to the element as an element reference
\* does: the selectors of the model are those that do not match yet. To a
\* locator that is no selector the presence of the element makes no
\* difference: the model hands it over with the element in the page.
Construct(list, locator, pDOM, pInit, kinds) ==
    /\ phase = "new"
    /\ locator = "selector" => ~docHasEl
    /\ locator # "selector" => docHasEl
    /\ LET w0 == [World EXCEPT !.settings = list,
                               !.container.original = locator]
           w1 == [resolveElement(w0, locator, docHasEl)
                     EXCEPT !.container.element = resolved(locator, docHasEl)]
           w2 == IF w1.container.isPresent
                 THEN insertDOMAndInit(w1, storageUp, pDOM, pInit, kinds,
                                       docHasEl, MaxStack)
                 ELSE watchForContainer(w1, storageUp, kinds, docHasEl, MaxStack).w
       IN  /\ KindsCalled(w0, storageUp, kinds, w2.inits)
           /\ Bounded(w2)
           /\ Commit(w2)
    /\ phase' = "ready"
    /\ last' = [op |-> "construct", s |-> locator, v |-> "", ret |-> "",
                DOM |-> pDOM, init |-> pInit]
    /\ UNCHANGED <<docHasEl, storageUp, ops>>

\* the callback of the MutationObserver that never disconnects
observerCallbackStays(w, up, kinds, inDoc) ==
    IF w.container.observer = "observing"
       /\ querySelector(w.container.original, inDoc) # NoElement
    THEN insertDOMAndInit([w EXCEPT !.container.element =
                                       querySelector(w.container.original, inDoc)],
                          up, TRUE, TRUE, kinds, inDoc, MaxStack)
    ELSE w

\* the callback of the MutationObserver, called for a batch of mutations
\* while the observer is connected
observerCallback(w, up, kinds, inDoc) ==
    IF w.container.observer = "observing"
       /\ querySelector(w.container.original, inDoc) # NoElement
    THEN LET w1 == [w EXCEPT !.container.element =
                                querySelector(w.container.original, inDoc)]
             w2 == insertDOMAndInit(w1, up, TRUE, TRUE, kinds, inDoc, MaxStack)
         IN  [w2 EXCEPT !.container.observer = "disconnected"]
    ELSE w

\* the container element is added to the document
ContainerAdded(kinds) ==
    /\ phase = "ready"
    /\ ~docHasEl
    /\ mq = <<>>
    /\ docHasEl' = TRUE
    /\ LET w == observerCallback(World, storageUp, kinds, TRUE)
       IN  /\ KindsCalled(World, storageUp, kinds, w.inits)
           /\ Bounded(w) /\ Commit(w)
           /\ last' = Op("mutation", "", "",
                         IF w.rendered > rendered THEN "mounted" ELSE "")
    /\ UNCHANGED <<phase, storageUp, ops>>

\* another part of the document changes
DocumentMutates(kinds) ==
    /\ phase = "ready"
    /\ mq = <<>>
    /\ ops < MaxOps
    /\ ops' = ops + 1
    /\ LET w == observerCallback(World, storageUp, kinds, docHasEl)
       IN  /\ KindsCalled(World, storageUp, kinds, w.inits)
           /\ Bounded(w) /\ Commit(w)
           /\ last' = Op("mutation", "", "",
                         IF w.rendered > rendered THEN "mounted" ELSE "")
    /\ UNCHANGED <<phase, docHasEl, storageUp>>

\* the elements the page hands to insertDOM that do not resolve
InvalidElements == {"null"}

\* insertDOM(element) called by the page with an element that does not
\* resolve, while the container of the constructor does not resolve either
InsertDOMCall(element, kinds) ==
    /\ phase = "ready"
    /\ ops < MaxOps
    /\ ops' = ops + 1
    /\ ~IsElement(resolved(container.original, docHasEl))
    /\ LET r == insertDOMElement(World, storageUp, kinds, element, docHasEl, MaxStack)
       IN  /\ KindsCalled(World, storageUp, kinds, r.w.inits)
           /\ Bounded(r.w) /\ Commit(r.w)
           /\ last' = Op("insertDOM", element, "",
                         IF r.threw THEN "TypeError" ELSE "")
    /\ UNCHANGED <<phase, docHasEl, storageUp>>

(* ---------------------------------------------------------------------- *)
(* The public operations                                                   *)
(* ---------------------------------------------------------------------- *)
\* set(setting, {v: v})
Set(name, v, kind) ==
    /\ phase = "ready"
    /\ ops < MaxOps
    /\ ops' = ops + 1
    /\ kind # "fast" => HasF(Obj(World, name).o, v)
    /\ LET w == setSetting(World, storageUp, name, v, kind)
       IN  Bounded(w) /\ Commit(w)
    /\ last' = Op("set", name, v, IF HasF(Obj(World, name).o, v) THEN kind ELSE "")
    /\ UNCHANGED <<phase, docHasEl, storageUp>>

\* get(setting)
Get(name) ==
    /\ phase = "ready"
    /\ ops < MaxOps
    /\ ops' = ops + 1
    /\ last' = Op("get", name, "", getSetting(World, storageUp, name))
    /\ UNCHANGED <<phase, settings, container, docHasEl, rendered, dom, store,
                   storageUp, mq, slow, unhandled, initRan, watchers>>
    /\ inits' = 0

\* the page assigns v to the v of the object getSettingObject(name), or
\* getSettings()[name], returned: the object is the one #settings holds, and
\* Object.freeze froze the list only, not the objects in it
PageWritesValue(name, v) ==
    /\ phase = "ready"
    /\ ops < MaxOps
    /\ mq = <<>> /\ slow = <<>>
    /\ v # Obj(World, name).v
    /\ ops' = ops + 1
    /\ settings' = [settings EXCEPT ![Idx(World, name)].v = v]
    /\ last' = Op("pageWrite", name, v, "")
    /\ UNCHANGED <<phase, container, docHasEl, rendered, dom, store,
                   storageUp, mq, slow, unhandled, initRan, watchers>>
    /\ inits' = 0

\* updateDOM(setting, value, error), as the last call the page makes, on
\* rendered controls (without them the call returns false at once)
UpdateDOMCall(name, value, error) ==
    /\ phase = "ready"
    /\ ops < MaxOps
    /\ rendered > 0 /\ IsElement(container.element)
    /\ mq = <<>> /\ slow = <<>>
    /\ ops' = MaxOps
    /\ Commit(updateDOM(World, name, value, error))
    /\ last' = [op |-> "updateDOM", s |-> name, v |-> value, ret |-> "",
                error |-> error]
    /\ UNCHANGED <<phase, docHasEl, storageUp>>

\* init() called by the page
InitCall(kinds) ==
    /\ phase = "ready"
    /\ ops < MaxOps
    /\ ops' = ops + 1
    /\ KindsCalled(World, storageUp, kinds, 1)
    /\ LET w == init(World, storageUp, kinds)
       IN  Bounded(w) /\ Commit(w)
    /\ last' = Op("init", "", "", initEnds(World))
    /\ UNCHANGED <<phase, docHasEl, storageUp>>

\* next(setting, currentOption) called by the page, in a task of its own
\* (no microtask is left from an earlier task). The call changes nothing,
\* so what may follow it is what may follow without it: it is taken as the
\* last call of a run.
NextOption(name, currentOption) ==
    /\ phase = "ready"
    /\ mq = <<>>
    /\ ops < MaxOps
    /\ ops' = MaxOps
    /\ last' = [op |-> "next", s |-> name, v |-> currentOption,
                ret |-> getNextOption(World, storageUp, name, currentOption),
                o |-> getNextOptionO(World, storageUp, name, currentOption)]
    /\ UNCHANGED <<phase, settings, container, docHasEl, rendered, dom, store,
                   storageUp, mq, slow, unhandled, initRan, watchers>>
    /\ inits' = 0

\* executeSetting(setting, {value: v}) called by the page
ExecuteOption(name, v, kind) ==
    /\ phase = "ready"
    /\ ops < MaxOps
    /\ ops' = ops + 1
    /\ kind # "fast" => HasF(Obj(World, name).o, OrElse(v, Obj(World, name).v))
    /\ LET w == executeSetting(World, name, v, kind, FALSE)
       IN  Bounded(w) /\ Commit(w)
    /\ last' = Op("execute", name, v,
                  IF HasF(Obj(World, name).o, OrElse(v, Obj(World, name).v))
                  THEN kind ELSE "")
    /\ UNCHANGED <<phase, docHasEl, storageUp>>

(* ---------------------------------------------------------------------- *)
(* Activations of the controls: the click listener of #attachEvents        *)
(* ---------------------------------------------------------------------- *)
\* a click reaches the listener: the controls are rendered, the button is
\* not disabled, and no microtask is left from an earlier task
Clickable(name) ==
    /\ phase = "ready"
    /\ rendered > 0
    /\ mq = <<>>
    /\ name \in DOMAIN dom

\* click on the TopButton of a setting
ClickTop(name, kind) ==
    /\ Clickable(name)
    /\ ~dom[name].disabled
    /\ ops < MaxOps
    /\ ops' = ops + 1
    /\ kind # "fast" => /\ Obj(World, name).type = "cycle"
                         /\ HasF(Obj(World, name).o,
                                 getNextOption(World, storageUp, name, dom[name].value))
    /\ LET type == Obj(World, name).type
           nextV == getNextOption(World, storageUp, name, dom[name].value)
           w == IF dom[name].active THEN World
                ELSE IF type = "submenu" THEN toggleSubMenu(World, name)
                ELSE IF type = "cycle"
                     THEN toggleSubMenu(setSetting(World, storageUp, name, nextV, kind), name)
                ELSE World
       IN  /\ Bounded(w) /\ Commit(w)
           /\ last' = IF dom[name].active THEN Op("clickIgnored", name, "", "")
                      ELSE IF type = "cycle"
                      THEN Op("clickTop", name, nextV,
                              IF HasF(Obj(World, name).o, nextV) THEN kind ELSE "")
                      ELSE Op("clickTop", name, "", "")
    /\ UNCHANGED <<phase, docHasEl, storageUp>>

\* click on the SubButton of a setting that carries the value v
ClickSub(name, v, kind) ==
    /\ Clickable(name)
    /\ v \in dom[name].subs
    /\ ~Obj(World, name).o[v].d
    /\ ops < MaxOps
    /\ ops' = ops + 1
    /\ kind # "fast" => v \notin dom[name].subActive /\ HasF(Obj(World, name).o, v)
    /\ LET w == IF v \in dom[name].subActive THEN World
                ELSE setSetting(World, storageUp, name, v, kind)
       IN  Bounded(w) /\ Commit(w)
    /\ last' = IF v \in dom[name].subActive THEN Op("clickIgnored", name, v, "")
               ELSE Op("clickSub", name, v,
                       IF HasF(Obj(World, name).o, v) THEN kind ELSE "")
    /\ UNCHANGED <<phase, docHasEl, storageUp>>

(* ---------------------------------------------------------------------- *)
(* Asynchronous steps                                                      *)
(* ---------------------------------------------------------------------- *)
\* the continuation after "await options[value].f(argsPassed)"
callbackDone(w, task, outcome) == updateDOM(w, task.s, task.v, outcome # "true")

\* the pending callback started by the setSetting call whose write is the
\* task (0 when that callback is not pending): writes run in the order of
\* their calls, and no pending callback settles while a write is queued
OwnCallback(w, task) ==
    LET c == {j \in 1..Len(w.slow) :
                 /\ w.slow[j].bySet /\ ~w.slow[j].persisted
                 /\ w.slow[j].s = task.s /\ w.slow[j].v = task.v}
    IN  IF task.cb = "slow" /\ c # {} THEN CHOOSE j \in c : \A k \in c : j <= k
        ELSE 0

\* the continuation after "await this.executeSetting(...)" in setSetting
persist(w, up, task) ==
    IF up
    THEN [setItem(w, task.s, task.v) EXCEPT
             !.slow = [j \in DOMAIN @ |->
                          IF j = OwnCallback(w, task)
                          THEN [@[j] EXCEPT !.persisted = TRUE] ELSE @[j]]]
    ELSE [w EXCEPT !.unhandled = TRUE]

\* the first queued microtask runs
RunMicrotask(outcome) ==
    /\ mq # <<>>
    /\ outcome # "true" => Head(mq).t = "callback"
    /\ LET task == Head(mq)
           w0 == [World EXCEPT !.mq = Tail(@)]
       IN  /\ IF task.t = "callback"
              THEN Commit(callbackDone(w0, task, outcome))
              ELSE Commit(persist(w0, storageUp, task))
           /\ last' = Op(IF task.bySet THEN task.t ELSE "callbackOfExecute",
                         task.s, task.v,
                         IF task.t = "callback" THEN outcome ELSE "")
    /\ UNCHANGED <<phase, docHasEl, storageUp, ops>>

\* a pending callback settles
SettleSlow(i, outcome) ==
    /\ mq = <<>>
    /\ i \in 1..Len(slow)
    /\ LET task == slow[i]
           w0 == [World EXCEPT !.slow = SubSeq(@, 1, i - 1) \o SubSeq(@, i + 1, Len(@))]
       IN  /\ Commit(callbackDone(w0, task, outcome))
           /\ last' = Op(IF ~task.bySet THEN "settledOfExecute"
                         ELSE IF task.persisted THEN "settledAfterWrite"
                         ELSE "settled",
                         task.s, task.v, outcome)
    /\ UNCHANGED <<phase, docHasEl, storageUp, ops>>

(* ---------------------------------------------------------------------- *)
(* The durable store failing and recovering                                *)
(* ---------------------------------------------------------------------- *)
StorageFails ==
    /\ storageUp
    /\ ops < MaxOps
    /\ ops' = ops + 1
    /\ storageUp' = FALSE
    /\ last' = Op("storage", "", "", "down")
    /\ UNCHANGED <<phase, settings, container, docHasEl, rendered, dom, store,
                   mq, slow, unhandled, initRan, watchers>>
    /\ inits' = 0

StorageRecovers ==
    /\ ~storageUp
    /\ ops < MaxOps
    /\ ops' = ops + 1
    /\ storageUp' = TRUE
    /\ last' = Op("storage", "", "", "up")
    /\ UNCHANGED <<phase, settings, container, docHasEl, rendered, dom, store,
                   mq, slow, unhandled, initRan, watchers>>
    /\ inits' = 0

(* ---------------------------------------------------------------------- *)
(* Specification                                                           *)
(* ---------------------------------------------------------------------- *)
KindsFor(list) == [1..Len(list) -> Kinds]

\* the page may call the manager: it is constructed and the budget of
\* operations is not used up (the guards every operation of the page has)
CanCall == phase = "ready" /\ ops < MaxOps

Next ==
    \/ /\ phase = "new"
       /\ \E list \in SettingsLists, loc \in Locators, pDOM \in BOOLEAN, pInit \in BOOLEAN :
             \E kinds \in KindsFor(list) : Construct(list, loc, pDOM, pInit, kinds)
    \/ \E kinds \in KindsFor(settings) : ContainerAdded(kinds)
    \/ CanCall /\ \E kinds \in KindsFor(settings) : DocumentMutates(kinds)
    \/ /\ CanCall
       /\ \E element \in InvalidElements :
             \E kinds \in KindsFor(settings) : InsertDOMCall(element, kinds)
    \/ /\ CanCall
       /\ \E name \in Names(World), kind \in Kinds :
             \E v \in OptionKeys(World, name) \cup OtherValues : Set(name, v, kind)
    \/ CanCall /\ \E name \in Names(World) : Get(name)
    \/ /\ CanCall
       /\ \E name \in Names(World) :
             \E v \in OptionKeys(World, name) : PageWritesValue(name, v)
    \/ /\ CanCall
       /\ \E name \in Names(World), error \in BOOLEAN :
             \E value \in OptionKeys(World, name) : UpdateDOMCall(name, value, error)
    \/ CanCall /\ \E kinds \in KindsFor(settings) : InitCall(kinds)
    \/ /\ CanCall
       /\ \E name \in Names(World) :
             \E v \in OptionKeys(World, name) \cup {EmptyV, "bogus"} : NextOption(name, v)
    \/ /\ CanCall
       /\ \E name \in Names(World), kind \in Kinds :
             \E v \in OptionKeys(World, name) \cup {UndefinedV} :
                 ExecuteOption(name, v, kind)
    \/ CanCall /\ \E name \in Names(World), kind \in Kinds : ClickTop(name, kind)
    \/ /\ CanCall
       /\ \E name \in Names(World), kind \in Kinds :
             \E v \in OptionKeys(World, name) : ClickSub(name, v, kind)
    \/ \E outcome \in Outcomes : RunMicrotask(outcome)
    \/ \E i \in 1..Len(slow), outcome \in Outcomes : SettleSlow(i, outcome)
    \/ StorageFails
    \/ StorageRecovers

Spec == Init /\ [][Next]_vars

\* the same program started on an empty durable store
InitEmpty == Init /\ store = [n \in AllNames |-> NoEntry]

SpecEmpty == InitEmpty /\ [][Next]_vars

(* ---------------------------------------------------------------------- *)
(* Vocabulary of the properties                                            *)
(* ---------------------------------------------------------------------- *)
Ready == phase = "ready"

\* the last operation was a call of setSetting(last.s, {v: last.v}), by the
\* page or by the click listener
WasSet == last.op \in {"set", "clickSub", "clickTop"} /\ last.v # ""

\* ... with a declared option key
WasValidSet == WasSet /\ last.v \in OptionKeys(World, last.s)

\* ... whose option declares (no) callback
WasSetWithCallback == WasValidSet /\ HasF(Obj(World, last.s).o, last.v)
WasSetNoCallback == WasValidSet /\ ~HasF(Obj(World, last.s).o, last.v)

\* the controls are in the page
Shown == rendered > 0 /\ IsElement(container.element)

\* the last operation may write the store under the key of setting n
Writer(n) ==
    \/ last.op \in {"construct", "mutation", "init"}
    \/ last.op \in {"set", "clickSub", "clickTop", "persist"} /\ last.s = n

(* ---------------------------------------------------------------------- *)
(* C1                                                                      *)
(* ---------------------------------------------------------------------- *)
C1Step ==
    /\ (WasSetNoCallback /\ storageUp)' =>
            (getSetting(World, TRUE, last.s) = last.v)'
    /\ (last.op = "persist" /\ storageUp)' =>
            (getSetting(World, TRUE, last.s) = last.v)'
    /\ \A n \in Names(World) :
            (Ready /\ ~Writer(n)' /\ store[n] # NoEntry) =>
                getSetting(World, TRUE, n)' = getSetting(World, TRUE, n)

C2Step ==
    (WasSet /\ last.op = "set" /\ last.v \notin OptionKeys(World, last.s))' =>
        /\ store' = store
        /\ mq' = mq
        /\ slow' = slow

\* C2: set(S, v) with a v that is no key of options(S) writes nothing to the
\* store and starts no callback.
C2_InvalidSetWritesNothing == [][C2Step]_vars

(* ---------------------------------------------------------------------- *)
(* C3                                                                      *)
(* ---------------------------------------------------------------------- *)
\* C3: after a set(S, v) that is rejected because v is no key of options(S),
\* a rendered, not disabled control of S shows the error indicator.
C3_InvalidSetShowsError ==
    (WasSet /\ last.op = "set" /\ last.v \notin OptionKeys(World, last.s)
        /\ ~HasProp(Obj(World, last.s).o, last.v)
        /\ Shown /\ ~dom[last.s].disabled)
    => dom[last.s].error

(* ---------------------------------------------------------------------- *)
(* C4                                                                      *)
(* ---------------------------------------------------------------------- *)
\* C4: started on an empty store, every value stored under a setting's key is
\* a key of that setting's options.
C4_StoredValuesAreOptionKeys ==
    Ready => \A n \in Names(World) :
                store[n] = NoEntry \/ store[n] \in OptionKeys(World, n)

(* ---------------------------------------------------------------------- *)
(* C5                                                                      *)
(* ---------------------------------------------------------------------- *)
\* C5: no callback started by a set is still pending once that set's value
\* has been written to the store.
C5_WriteAfterCallback ==
    \A j \in 1..Len(slow) : slow[j].bySet => ~slow[j].persisted

(* ---------------------------------------------------------------------- *)
(* C6                                                                      *)
(* ---------------------------------------------------------------------- *)
\* the callback of a set has just failed: it threw during the call, or it
\* settled with a rejection or with a result other than true
CallbackFailed ==
    \/ WasSetWithCallback /\ last.ret = "throws"
    \/ last.op \in {"callback", "settled", "settledAfterWrite"} /\ last.ret # "true"

\* the write of the failed set has happened or is queued
WriteDoneOrQueued ==
    \/ last.op = "settledAfterWrite"
    \/ \E j \in 1..Len(mq) :
           mq[j].t = "persist" /\ mq[j].s = last.s /\ mq[j].v = last.v

\* C6: when the callback of the option selected by set(S, v) fails, v is
\* still written to the store (the store working), and the control of S
\* shows the error indicator unless it is disabled.
C6_FailedCallbackPersistsAndFlags ==
    CallbackFailed =>
        /\ (~unhandled /\ storageUp) => WriteDoneOrQueued
        /\ Shown => (dom[last.s].disabled \/ dom[last.s].error)

(* ---------------------------------------------------------------------- *)
(* C7                                                                      *)
(* ---------------------------------------------------------------------- *)
\* C7: a set(S, v) with an option key v whose option has no callback has, on
\* return, written v to the (working) store, and a rendered control of S
\* holds v with the error indicator off.
C7_NoCallbackPersistsAtOnce ==
    (WasSetNoCallback /\ last.op = "set" /\ storageUp) =>
        /\ store[last.s] = last.v
        /\ Shown => (dom[last.s].value = last.v /\ ~dom[last.s].error)

(* ---------------------------------------------------------------------- *)
(* C8                                                                      *)
(* ---------------------------------------------------------------------- *)
\* C8: with a working store get(S) returns the entry stored under S when
\* there is one, and the in-memory value of S when there is none.
C8_GetReadsStoreThenMemory ==
    (last.op = "get" /\ storageUp) =>
        /\ store[last.s] # NoEntry => last.ret = store[last.s]
        /\ store[last.s] = NoEntry => last.ret = Obj(World, last.s).v

\* get answered from a store entry that differs from the in-memory value
C8_Witness ==
    /\ last.op = "get" /\ storageUp
    /\ store[last.s] # NoEntry
    /\ store[last.s] # Obj(World, last.s).v
    /\ last.ret = store[last.s]

C10_WriteFailureNeverEscapes == ~unhandled

(* ---------------------------------------------------------------------- *)
(* C11..C14: the in-memory value, and the next option                      *)
(* ---------------------------------------------------------------------- *)
\* C11: after a successful set(S, v) (v a declared option without callback,
\* the store working, so that the store now holds v), the in-memory value
\* of S, the one getSetting falls back to, equals v.
C11_MemoryMirrorsStore ==
    (WasSetNoCallback /\ storageUp /\ store[last.s] = last.v)
        => Obj(World, last.s).v = last.v

\* the last operation was next(last.s, last.v) with last.v a key of the
\* setting's options
WasNextOfKey == last.op = "next" /\ last.v \in OptionKeys(World, last.s)

\* C12: for currentValue a key of the options, nextOption returns as nextKey
\* the key that follows currentValue in the options' iteration order, and
\* the first key when currentValue is the last one, disabled or not.
C12_NextIsSuccessor ==
    WasNextOfKey =>
        LET arr == Obj(World, last.s).keys
            p == CHOOSE i \in 1..Len(arr) : arr[i] = last.v
        IN  last.ret = IF p = Len(arr) THEN arr[1] ELSE arr[p + 1]

\* next("volume", "low") returned "mid", a disabled option
C12_Witness ==
    /\ WasNextOfKey
    /\ last.v = "low" /\ last.ret = "mid"
    /\ Obj(World, last.s).o["mid"].d

\* nextOption applied n times, each nextKey fed back as currentValue
RECURSIVE nextTimes(_, _, _, _, _)
nextTimes(w, up, name, k, n) ==
    IF n = 0 THEN k
    ELSE getNextOption(w, up, name, nextTimes(w, up, name, k, n - 1))

\* C13: from any key k of options(S), applying nextOption |options(S)| times
\* returns k, and the keys returned on the way are all the option keys, each
\* once. Stated for the setting S of every call of next, in the state the
\* call was made in, the first application from the key of the call being
\* the call itself.
C13_NextIsCyclic ==
    WasNextOfKey =>
        /\ last.ret = nextTimes(World, storageUp, last.s, last.v, 1)
        /\ \A k \in OptionKeys(World, last.s) :
               LET n == Cardinality(OptionKeys(World, last.s))
                   visit(j) == nextTimes(World, storageUp, last.s, k, j)
               IN  /\ visit(n) = k
                   /\ {visit(j) : j \in 1..n} = OptionKeys(World, last.s)

\* next was called on the last of three options and returned the first
C13_Witness ==
    /\ WasNextOfKey
    /\ Len(Obj(World, last.s).keys) = 3
    /\ last.v = "high" /\ last.ret = "low"
    /\ nextTimes(World, storageUp, last.s, last.v, 3) = last.v

\* C14: the nextDefinition returned by nextOption(S, currentValue) is the
\* option definition stored in options(S) under the returned nextKey.
C14_DefinitionOfNextKey ==
    WasNextOfKey => last.o = last.ret

(* ---------------------------------------------------------------------- *)
(* C15..C17: init()                                                        *)
(* ---------------------------------------------------------------------- *)
\* the last operation was a call of init() by the page
WasInit == last.op = "init"

\* the write of value v of setting n is queued behind the option's callback
WriteQueued(n, v) ==
    \E j \in 1..Len(mq) : mq[j].t = "persist" /\ mq[j].s = n /\ mq[j].v = v

\* C15: init() calls set, for every registered setting that declares no
\* initializer, with the value get returns for it (the stored value, or the
\* in-memory default when the store has no entry): with a working store,
\* after init() a declared value without callback is in the store, so on an
\* empty store the default is persisted, and the write of a declared value
\* with a callback is queued behind that callback.
C15_InitSetsStoredOrDefault ==
    (WasInit /\ storageUp) =>
        \A n \in Names(World) :
            Obj(World, n).i = "none" =>
                LET g == getSetting(World, storageUp, n)
                    o == Obj(World, n).o
                IN  /\ (g \in DOMAIN o /\ ~HasF(o, g)) => store[n] = g
                    /\ (g \in DOMAIN o /\ HasF(o, g)) => WriteQueued(n, g)

\* init() ran on a store without entries: the default of "volume", without
\* callback, is persisted, and the write of the default of "vol" is queued
C15_Witness ==
    /\ WasInit /\ storageUp
    /\ Obj(World, "volume").i = "none"
    /\ store["volume"] = Obj(World, "volume").v
    /\ "vol" \in Names(World) /\ store["vol"] = NoEntry
    /\ WriteQueued("vol", Obj(World, "vol").v)

\* C16: for every registered setting that declares an initializer, init()
\* invokes the initializer and does not itself call set for that setting
\* (it leaves the setting's store entry as it was).
C16Step ==
    last'.op = "init" =>
        \A n \in Names(World) :
            Obj(World, n).i # "none" => (n \in initRan' /\ store'[n] = store[n])

C16_InitializerReplacesSet == [][C16Step]_vars

\* C17: when the initializer of one setting throws during init(), every
\* other registered setting is still initialized and init() reports an
\* aggregate failure at its end.
C17_InitReportsAggregateFailure ==
    (WasInit /\ storageUp /\ \E n \in Names(World) : Obj(World, n).i = "throws") =>
        /\ last.ret = "failed"
        /\ \A m \in Names(World) :
               Obj(World, m).i = "none" =>
                   LET g == getSetting(World, storageUp, m)
                       o == Obj(World, m).o
                   IN  (g \in DOMAIN o /\ ~HasF(o, g)) => store[m] = g

(* ---------------------------------------------------------------------- *)
(* C18..C20: deferred mounting                                             *)
(* ---------------------------------------------------------------------- *)
\* the step is a batch of document mutations
IsMutation == last'.op = "mutation"

\* C18: an engine constructed with a selector that matches no element
\* returns with a registered watcher and nothing rendered; when the element
\* appears, the controls are rendered into it (once), the watcher is
\* disconnected and the mount state becomes mounted; a mutation after that
\* causes no render and no init.
C18Step ==
    /\ (last'.op = "construct" /\ last'.s = "selector" /\ ~docHasEl) =>
           /\ container'.observer = "observing" /\ watchers' = 1
           /\ rendered' = 0 /\ inits' = 0
    /\ (IsMutation /\ container.original = "selector"
          /\ container.observer = "observing" /\ docHasEl') =>
           /\ rendered' = 1 /\ DOMAIN dom' = Names(World)
           /\ container'.observer = "disconnected"
           /\ container'.isPresent /\ IsElement(container'.element)
    /\ (IsMutation /\ container.observer = "disconnected") =>
           /\ rendered' = rendered /\ dom' = dom /\ inits' = 0
           /\ container' = container /\ watchers' = watchers

C18_DeferredMountOnce == [][C18Step]_vars

\* after the late mount another part of the document changed: the controls
\* are still rendered once and the watcher is disconnected
C18_Witness ==
    /\ container.original = "selector"
    /\ container.observer = "disconnected"
    /\ last.op = "mutation" /\ last.ret = ""
    /\ rendered = 1 /\ container.isPresent

\* the constructor has just returned for a container that does not resolve
ConstructedUnresolved ==
    /\ last.op = "construct"
    /\ \/ last.s \in {"null", "undefined", "emptyJQuery"}
       \/ last.s = "selector" /\ ~docHasEl

\* C19: for every kind of unresolvable locator the locator is reported as
\* not present and the construction falls back to deferred mounting: the
\* constructor returns, exactly one watcher is pending, and neither render
\* nor init has run.
C19_UnresolvedLocatorDefers ==
    ConstructedUnresolved =>
        /\ ~container.isPresent
        /\ container.observer = "observing" /\ watchers = 1
        /\ rendered = 0 /\ inits = 0

\* C20: at most one document watcher is ever registered by an instance; a
\* further request to wait for the container while one is pending creates
\* no second one.
C20_AtMostOneWatcher == watchers <= 1

\* a mount attempt on an element that does not resolve, made while the
\* watcher of the constructor is pending
C20_Witness ==
    /\ last.op = "insertDOM"
    /\ container.observer = "observing"
    /\ watchers = 1

(* ---------------------------------------------------------------------- *)
(* C21..C23: the construction options, executeSetting, hanging callbacks   *)
(* ---------------------------------------------------------------------- *)
\* C21: the options DOM and init of the constructor are honoured when the
\* mount happens at construction (an element) and when it happens later
\* through the watcher (a selector): with init disabled the engine does not
\* run init() by itself, with DOM disabled it does not render by itself.
\* The later mount is the batch of mutations that follows the construction.
C21Step ==
    /\ (last'.op = "construct" /\ last'.s \in {"element", "selector"}) =>
           /\ ~last'.init => inits' = 0
           /\ ~last'.DOM => rendered' = 0
    /\ (last.op = "construct" /\ last.s \in {"element", "selector"}
          /\ last'.op = "mutation") =>
           /\ ~last.init => inits' = 0
           /\ ~last.DOM => rendered' = rendered

C21_MountOptionsHonoured == [][C21Step]_vars

\* the last operation was executeSetting(last.s, {value: last.v}) by the
\* page, and the callback it called, if any, did not throw at once
WasExecute == last.op = "execute" /\ last.ret # "throws"

\* the callback of option v of setting n has been called by executeSetting
\* and has not completed
CallbackRunning(n, v) ==
    \/ \E j \in 1..Len(mq) :
          mq[j].t = "callback" /\ ~mq[j].bySet /\ mq[j].s = n /\ mq[j].v = v
    \/ \E j \in 1..Len(slow) :
          ~slow[j].bySet /\ slow[j].s = n /\ slow[j].v = v

\* C22: executeOption(S, args) invokes the callback of the option named by
\* the explicit value when one is given, otherwise of the option persisted
\* for S in the durable store, otherwise of the default option of S.
C22_ExecuteResolvesOption ==
    (WasExecute /\ storageUp) =>
        LET o == Obj(World, last.s).o
            persisted == store[last.s]
            value == IF Truthy(last.v) THEN last.v
                     ELSE IF persisted # NoEntry THEN persisted
                     ELSE DefaultObj(World, last.s).v
        IN  \A k \in DOMAIN o :
                (o[k].f /\ k = value) => CallbackRunning(last.s, k)

\* C23: while the callback of the option selected by set(S, v) has not
\* resolved, the write of v by that set does not happen.
C23Step ==
    (mq # <<>> /\ Head(mq).t = "persist" /\ last'.op = "persist") =>
        OwnCallback(World, Head(mq)) = 0

C23_HangingCallbackDelaysWrite == [][C23Step]_vars
(* ---------------------------------------------------------------------- *)
(* C24..C30                                                                *)
(* ---------------------------------------------------------------------- *)

\* the list the manager was constructed with
DeclaredList ==
    CHOOSE L \in SettingsLists :
        /\ Len(L) = Len(settings)
        /\ \A i \in 1..Len(L) : L[i].name = settings[i].name

\* C24: getDefault(S) returns the value S was declared with at
\* construction, whatever the page did before, changes of the objects
\* obtained from getSettingObject and getSettings included.
C24_DefaultsNeverWritten ==
    Ready =>
        \A i \in 1..Len(DeclaredList) :
            getDefault(World, DeclaredList[i].name) = DeclaredList[i].v

\* the options of setting n flagged hidden
HiddenOptions(n) == {k \in OptionKeys(World, n) : Obj(World, n).o[k].h}

\* C25: no control of the rendered surface carries a hidden option, and a
\* set(S, h) with a hidden option h of S, made with a working store, leaves h
\* in the store and the error indicator of S off.
C25_HiddenOptionSettable ==
    /\ Shown => \A n \in Names(World) : dom[n].subs \cap HiddenOptions(n) = {}
    /\ (last.op = "set" /\ last.v \in HiddenOptions(last.s) /\ storageUp) =>
           /\ store[last.s] = last.v
           /\ Shown => ~dom[last.s].error

\* set("mode", {v: "secret"}) on rendered controls
C25_Witness ==
    /\ last.op = "set" /\ last.v \in HiddenOptions(last.s) /\ storageUp
    /\ Shown
    /\ last.v \notin dom[last.s].subs
    /\ store[last.s] = last.v
    /\ dom[last.s].value = last.v

\* C26: the sub-controls of a submenu setting whose option keys are all
\* numeric stand in the order of descending key, whatever the display names
\* of the options; those of a setting whose first key is no number stand in
\* the order the options were declared in.
C26_NumericKeysDescending ==
    Shown =>
        \A n \in Names(World) :
            LET st == Obj(World, n)
                order == dom[n].order
                Visible(k) == ~st.o[k].h
            IN  st.type = "submenu" =>
                    /\ (\A i \in 1..Len(st.keys) : IsNumeric(st.keys[i])) =>
                           \A i, j \in 1..Len(order) :
                               i < j => NumberOf(order[i]) > NumberOf(order[j])
                    /\ ~IsNumeric(st.keys[1]) => order = SelectSeq(st.keys, Visible)

\* C27: a disabled top control never shows the error indicator, whatever
\* updateDOM calls were made on it, those with error = true included.
C27_DisabledShowsNoError ==
    Shown => \A n \in Names(World) : dom[n].disabled => ~dom[n].error

\* updateDOM(S, v, true) has written v into the disabled control of S
C27_Witness ==
    /\ Shown
    /\ last.op = "updateDOM" /\ last.error
    /\ dom[last.s].disabled
    /\ dom[last.s].value = last.v
    /\ dom[last.s].value # getSetting(World, TRUE, last.s)
    /\ ~dom[last.s].error

\* C28: after updateDOM(S, v, error) on the rendered controls, with v an
\* option of S, the top control of S holds v and shows the label of v, and
\* the active sub-controls of S are exactly those whose value is v.
C28_ReflectShowsValue ==
    (Shown /\ last.op = "updateDOM") =>
        /\ dom[last.s].value = last.v
        /\ dom[last.s].label = LabelOf(Obj(World, last.s).o, last.v)
        /\ dom[last.s].subActive = {k \in dom[last.s].subs : k = last.v}

\* the settings whose panel is open
OpenPanels == {n \in DOMAIN dom : dom[n].open}

C29Step ==
    /\ (last'.op = "clickTop" /\ Obj(World, last'.s).type = "submenu") =>
           OpenPanels' = {last'.s}
    /\ (last'.op = "clickIgnored" /\ last'.v = "" /\ last'.s \in OpenPanels) =>
           last'.s \in OpenPanels'
    /\ Cardinality(OpenPanels') <= 1

\* C29: a click on the top control of a submenu setting leaves its panel
\* open and every other panel closed, a click on a control whose panel is
\* open leaves that panel open, and never is more than one panel open.
C29_OnePanelOpen == [][C29Step]_vars

\* the key after k in the declared order of the keys, the first after the last
KeyAfter(keys, k) ==
    LET i == CHOOSE j \in 1..Len(keys) : keys[j] = k
    IN  keys[(i % Len(keys)) + 1]

\* the value a click on the top control of n starts from: the value the
\* control holds, the persisted value when it holds none
HeldValue(n) ==
    IF dom[n].value = EmptyV THEN getSetting(World, storageUp, n) ELSE dom[n].value

C30Step ==
    (last'.op = "clickTop" /\ Obj(World, last'.s).type = "cycle") =>
        LET n == last'.s
            keys == Obj(World, n).keys
            inKeys == \E j \in 1..Len(keys) : keys[j] = HeldValue(n)
        IN  /\ inKeys => last'.v = KeyAfter(keys, HeldValue(n))
            /\ (inKeys /\ storageUp /\ ~HasF(Obj(World, n).o, last'.v)) =>
                   store'[n] = KeyAfter(keys, HeldValue(n))
            /\ (inKeys /\ HasF(Obj(World, n).o, last'.v)) =>
                   \E i \in 1..Len(mq') :
                       /\ mq'[i].t = "persist" /\ mq'[i].s = n
                       /\ mq'[i].v = KeyAfter(keys, HeldValue(n))
            /\ \A m \in DOMAIN dom' : ~dom'[m].open /\ ~dom'[m].active

SubClicked == last.op \in {"clickSub", "clickIgnored"} /\ last.v # ""

C31Step ==
    (SubClicked' /\ storageUp) =>
        LET n == last'.s
            v == last'.v
        IN  IF HasF(Obj(World, n).o, v)
            THEN \/ \E i \in 1..Len(mq') :
                        mq'[i].t = "persist" /\ mq'[i].s = n /\ mq'[i].v = v
                 \/ \E i \in 1..Len(slow') : slow'[i].s = n /\ slow'[i].v = v
            ELSE store'[n] = v

\* C31: a click on a rendered, enabled sub-control of S with value v calls
\* set(S, v), seen by its effect with a working store (v is written, or the
\* callback of v is started and the write queued), also when the sub-control
\* carries the active indicator.
C31_SubClickCallsSet == [][C31Step]_vars

\* C32: insertDOM(element) with an element that does not resolve returns to
\* its caller without an exception, and the watcher of the deferred mount
\* is in place after it.
C32_MountErrorRecoverable ==
    last.op = "insertDOM" =>
        /\ last.ret # "TypeError"
        /\ watchers >= 1

\* nothing is pending: no microtask is queued and no callback is running
Quiescent == mq = <<>> /\ slow = <<>>

\* the last step resolved the callback of a set on last.s to true
CallbackResolved ==
    last.op \in {"settled", "settledAfterWrite"} /\ last.ret = "true"

\* C33: when the last callback of the sets on S has resolved and nothing is
\* pending any more, no write having failed, the control of S holds the
\* value get(S) returns. Stated for a setting whose own top control
\* updateDOM reaches.
C33_QuiescentConsistency ==
    (Shown /\ CallbackResolved /\ Quiescent /\ storageUp /\ ~unhandled
       /\ TopButtonFor(World, last.s) = last.s) =>
        dom[last.s].value = getSetting(World, TRUE, last.s)

C34Step ==
    (WasSetNoCallback /\ storageUp /\ storageUp'
       /\ last'.op = "persist" /\ last'.s = last.s
       /\ \A i \in 1..Len(mq') : mq'[i].s # last.s) =>
        getSetting(World, TRUE, last.s)' = last.v

\* C34: when set(S, b) with an option b without callback was issued after a
\* set(S, a) whose write was still queued, and that write, the last one
\* queued for S, runs next, both sets have completed and get(S) returns b,
\* the value set last.
C34_IssueOrderDecides == [][C34Step]_vars

C35Step ==
    last'.op = "updateDOM" =>
        \A t \in DOMAIN dom : t # last'.s => dom'[t] = dom[t]

\* C35: updateDOM(S, v, error) leaves the controls of every other setting T
\* as they were: value, label, active indicators and error indicator, also
\* when the name of T starts with the name of S.
C35_ReflectChangesOnlyS == [][C35Step]_vars

\* C36: right after the constructor rendered the controls without running
\* init, the label of every top control is that of the option get(name)
\* returns and the active sub-controls are those of that option, for every
\* setting whose stored value is one of its options.
C36_RenderShowsCurrentValue ==
    (last.op = "construct" /\ Shown /\ inits = 0 /\ storageUp) =>
        \A n \in Names(World) :
            LET cur == getSetting(World, storageUp, n)
            IN  cur \in OptionKeys(World, n) =>
                    /\ dom[n].label = LabelOf(Obj(World, n).o, cur)
                    /\ dom[n].subActive = {k \in dom[n].subs : k = cur}

\* the value a call next(last.s, last.v) starts from: the value passed, the
\* value getSetting returns when it is the empty string
StartOfNext ==
    IF last.v = EmptyV THEN getSetting(World, storageUp, last.s) ELSE last.v

\* x is no key of the options of n, nor is JSON.stringify(x)
Unmatched(n, x) ==
    LET arr == Obj(World, n).keys
    IN  \A i \in 1..Len(arr) : arr[i] # x /\ arr[i] # JSONstringify(x)

\* C37: nextOption(S, c) with a c that matches no option key, neither itself
\* nor its serialized form, returns the first key of the options, also when
\* c is the stale value the store holds or the null of a failing store.
C37_UnmatchedGivesFirst ==
    (last.op = "next" /\ Unmatched(last.s, StartOfNext)) =>
        last.ret = Obj(World, last.s).keys[1]

\* next(S) was called while the store held a stale value for S, and returned
\* the first of several keys
C37_Witness ==
    /\ last.op = "next" /\ last.v = EmptyV
    /\ storageUp /\ store[last.s] = "bogus"
    /\ Len(Obj(World, last.s).keys) > 1
    /\ last.ret = Obj(World, last.s).keys[1]

\* the step is a set on last'.s that succeeds: a set of an option without
\* callback with a working store, or a callback of a set resolving to true
SetSucceeds ==
    \/ (WasSetNoCallback /\ storageUp)'
    \/ (last.op \in {"callback", "settled", "settledAfterWrite"} /\ last.ret = "true")'

C38Step ==
    (SetSucceeds /\ Shown /\ last'.s \in DOMAIN dom /\ dom[last'.s].error) =>
        ~dom'[last'.s].error

C39Step ==
    \A n \in AllNames :
        store'[n] # store[n] =>
            /\ Writer(n)'
            /\ (n \in Names(World) /\ store[n] \in OptionKeys(World, n))'

\* C39: an entry of the store changes only in a step of a set on its own
\* setting (a set by the page, by a click or by init, or the queued write of
\* one), and the value written is a key of the setting's options; get,
\* nextOption, executeOption, render, updateDOM and the panels write nothing.
C39_OnlyValidSetWrites == [][C39Step]_vars

====
